---- MODULE Spec2Model ----
(***************************************************************************)
(* The buyer negotiation agent of AIAgent.py (YourBuyerAgent), the mock    *)
(* seller and the runner run_negotiation_test, as a state machine; the     *)
(* seller of SellerAgent.py and the engine of main.py follow at the end.   *)
(*                                                                         *)
(* Prices are Python ints.  The code computes with IEEE doubles and        *)
(* truncates with int() / math.ceil(); every such expression is modelled   *)
(* by the integer it yields.  For most constants the double product        *)
(* truncates to the exact floor over the whole price range (< 500000);     *)
(* for x*1.15, 1.10*x and x*0.58 the double product of an exact integer    *)
(* result can round across the integer, which IntMul115, CeilMul110 and    *)
(* IntMul058 reproduce (half-ulp rule).                                    *)
(***************************************************************************)
EXTENDS Integers, Sequences, FiniteSets, TLC

VARIABLES
    market,         \* product.base_market_price
    grade,          \* product.quality_grade
    export,         \* bool(product.attributes.get("export_grade"))
    your_budget,    \* context.your_budget
    seller_min,     \* min_price of MockSellerAgent, of SellerAgent (both files)
    current_round,  \* context.current_round
    seller_offers,  \* context.seller_offers
    your_offers,    \* context.your_offers
    messages,       \* context.messages (the speaker of each entry)
    round_num,      \* the runner's loop variable
    seller_price,   \* the runner's seller_price / the seller_price argument
    buyer_offer,    \* the price last returned by the buyer policy
    status,         \* the DealStatus last returned by the buyer policy
    deal_made,      \* the runner's deal_made
    final_price,    \* the runner's final_price
    phrase,         \* the random draw of the last _say call
    pc,             \* position of the runner / of the single call
    calls,          \* how many times the buyer policy and the seller were called
    estimate,       \* the value last returned by _estimate_min_price
    target_in,      \* the target argument of _concession_target
    planned_out,    \* the value last returned by _concession_target
    max_price,      \* SellerAgent.max_price (SellerAgent.py)
    current_offer,  \* SellerAgent.current_offer (SellerAgent.py), a fraction
    returned,       \* the value last returned by SellerAgent.respond (SellerAgent.py)
    current_price,  \* SellerAgent.current_price (main.py)
    max_rounds      \* the max_rounds argument of respond / of negotiate's loop

vars == <<market, grade, export, your_budget, seller_min, current_round,
          seller_offers, your_offers, messages, round_num, seller_price,
          buyer_offer, status, deal_made, final_price, phrase, pc, calls,
          estimate, target_in, planned_out, max_price, current_offer,
          returned, current_price, max_rounds>>

product == <<market, grade, export>>

-----------------------------------------------------------------------------
(* Values and bounds *)

\* Python's None (an absent price, estimate or bound).
None == -1

\* range(10) of the runner, R of the concession curve.
MaxRounds == 10

\* The budgets of a session are 50%, 55%, ... of the market price, NBudget steps up.
NBudget == 14

\* The seller floors of a session are 50%, 55%, ... of the market price, NMin steps up.
NMin == 12

\* Longest buyer-offer history given to a single call of the estimator.
MaxPairs == 2

\* Longest buyer-offer history given to a single call of the policy.
MaxHist == 2

Grades == {"A", "B", "Export"}

Products == {<<"A", FALSE>>, <<"B", FALSE>>, <<"Export", FALSE>>, <<"A", TRUE>>}

Markets == {100000, 150000, 180000}

ONGOING == "ongoing"
ACCEPTED == "accepted"
REJECTED == "rejected"
TIMEOUT == "timeout"

DealStatus == {ONGOING, ACCEPTED, REJECTED, TIMEOUT}

-----------------------------------------------------------------------------
(* Arithmetic of the code *)

Min2(a, b) == IF a <= b THEN a ELSE b

Max2(a, b) == IF a >= b THEN a ELSE b

\* int() of a quotient n/d, d > 0: truncation toward zero.
TruncDiv(n, d) == IF n >= 0 THEN n \div d ELSE -((-n) \div d)

RECURSIVE Pow2Floor(_)
\* The largest power of two <= n (n >= 1): the binade of a double.
Pow2Floor(n) == IF n < 2 THEN 1 ELSE 2 * Pow2Floor(n \div 2)

\* int(x * c) for c = pct/100 where the double product truncates to the exact floor.
IntMulPct(x, pct) == (x * pct) \div 100

\* int(x * 1.15).  The double 1.15 is 0.4 ulp below 23/20, so when 23x/20 is an
\* integer e the product lies below e and rounds down to the double before e
\* when 0.4*x exceeds half of e's binade: int() then gives e - 1.
IntMul115(x) ==
    LET e == (x * 115) \div 100
    IN  IF (x * 115) % 100 = 0 /\ e >= 2 /\ 4 * x > 5 * Pow2Floor(e - 1)
        THEN e - 1
        ELSE e

\* int(math.ceil(1.10 * x)), and the least integer b with b >= x * 1.1.  The
\* double 1.1 is 0.4 ulp above 11/10, so when 11x/10 is an integer e the product
\* can round up to the double after e: ceil() then gives e + 1.
CeilMul110(x) ==
    LET e == -((-(x * 110)) \div 100)
    IN  IF (x * 110) % 100 = 0 /\ e >= 1 /\ 4 * x > 5 * Pow2Floor(e)
        THEN e + 1
        ELSE e

\* int(x * 0.58).  The double 0.58 is 0.36 ulp below 29/50.
IntMul058(x) ==
    LET e == (x * 58) \div 100
    IN  IF (x * 58) % 100 = 0 /\ e >= 2 /\ 9 * x > 25 * Pow2Floor(e - 1)
        THEN e - 1
        ELSE e

\* eased = 1 / (1 + exp(-8 * (t - 0.5))) for t = (r - 1) / 9, as 15 decimal
\* digits in five groups of three.
EasedDigits(r) ==
    CASE r = 1  -> <<17, 986, 209, 962, 91>>
      [] r = 2  -> <<42, 651, 252, 130, 942>>
      [] r = 3  -> <<97, 772, 599, 850, 799>>
      [] r = 4  -> <<208, 608, 527, 326, 44>>
      [] r = 5  -> <<390, 682, 458, 156, 439>>
      [] r = 6  -> <<609, 317, 541, 843, 560>>
      [] r = 7  -> <<791, 391, 472, 673, 955>>
      [] r = 8  -> <<902, 227, 400, 149, 200>>
      [] r = 9  -> <<957, 348, 747, 869, 57>>
      [] r = 10 -> <<982, 13, 790, 37, 908>>

\* floor(d * eased) for d >= 0, by long multiplication in base 1000.
EasedMulFloor(d, r) ==
    LET e  == EasedDigits(r)
        s5 == d * e[5]
        s4 == d * e[4] + s5 \div 1000
        s3 == d * e[3] + s4 \div 1000
        s2 == d * e[2] + s3 \div 1000
        s1 == d * e[1] + s2 \div 1000
    IN  s1 \div 1000

Last(s) == s[Len(s)]

-----------------------------------------------------------------------------
(* YourBuyerAgent *)

IsExport(g, ex) == g = "Export" \/ ex

\* _grade_multiplier, in hundredths.
grade_multiplier(g, ex) ==
    IF IsExport(g, ex) THEN 95
    ELSE IF g = "A" THEN 92
    ELSE 88

calculate_fair_price(m, g, ex) == IntMulPct(m, grade_multiplier(g, ex))

\* _budget_tightness(context) >= num/100.  The quotient of two prices and the
\* constant round to different doubles unless they are equal, so the
\* comparison of doubles is the comparison of the rationals.
budget_tightness_ge(budget, m, num) == 100 * budget >= num * Max2(1, m)

RECURSIVE EstLoop(_, _, _, _, _)
\* The for loop of _estimate_min_price from pair i on (i counts from 1);
\* an upper bound of None stands for math.inf.
EstLoop(i, lb, ub, yo, so) ==
    IF i > Len(yo) \/ i + 1 > Len(so)
    THEN [lower_bound |-> lb, upper_bound |-> ub]
    ELSE LET counter   == so[i + 1]
             threshold == IntMul115(yo[i])
             ub2       == IF ub = None THEN counter ELSE Min2(ub, counter)
         IN  IF counter > threshold
             THEN EstLoop(i + 1, counter, ub2, yo, so)
             ELSE EstLoop(i + 1, lb, ub2, yo, so)

estimate_lower_bound_only(yo, so) ==
    LET b == EstLoop(1, None, None, yo, so)
    IN  [est |-> b.lower_bound,
         lower_bound |-> b.lower_bound,
         upper_bound |-> b.upper_bound]

\* An estimator that keeps its last estimate as the upper bound of the next call.
estimate_drifting(yo, so) ==
    LET b == EstLoop(1, None, estimate.est, yo, so)
    IN  [est |-> IF b.lower_bound # None THEN b.lower_bound
                 ELSE IF b.upper_bound # None THEN IntMulPct(b.upper_bound, 96)
                 ELSE None,
         lower_bound |-> b.lower_bound,
         upper_bound |-> b.upper_bound]

\* _estimate_min_price: the point estimate and the two bounds.
estimate_min_price(yo, so) ==
    LET b == EstLoop(1, None, None, yo, so)
    IN  [est |-> IF b.lower_bound # None THEN b.lower_bound
                 ELSE IF b.upper_bound # None THEN IntMulPct(b.upper_bound, 96)
                 ELSE None,
         lower_bound |-> b.lower_bound,
         upper_bound |-> b.upper_bound]

\* The schedule read one round ahead: t = r / (R - 1) instead of (r - 1) / (R - 1).
concession_target_round_ahead(round_i, yo, m, target) ==
    LET r      == Min2(MaxRounds, Max2(1, round_i) + 1)
        anchor == IF Len(yo) > 0 THEN yo[1] ELSE IntMulPct(m, 65)
        d      == target - anchor
    IN  IF d >= 0 THEN anchor + EasedMulFloor(d, r)
        ELSE anchor - EasedMulFloor(-d, r) - 1

\* _concession_target.
concession_target(round_i, yo, m, target) ==
    LET r      == Max2(1, round_i)
        anchor == IF Len(yo) > 0 THEN yo[1] ELSE IntMulPct(m, 65)
        d      == target - anchor
    IN  IF d >= 0 THEN anchor + EasedMulFloor(d, r)
        ELSE anchor - EasedMulFloor(-d, r) - 1

\* int(market * anchor_ratio) of generate_opening_offer.  0.62 + 0.03, 0.58 + 0.03
\* and 0.55 + 0.03 are the doubles 0.65, 0.61 and 0.5800000000000001, whose
\* products truncate to the exact floor; the literal 0.58 does not.
opening_anchor(m, g, ex, budget) ==
    LET premium == IsExport(g, ex)
    IN  IF budget_tightness_ge(budget, m, 105)
        THEN IntMulPct(m, IF premium THEN 65 ELSE 62)
        ELSE IF budget_tightness_ge(budget, m, 95)
        THEN (IF premium THEN IntMulPct(m, 61) ELSE IntMul058(m))
        ELSE IntMulPct(m, IF premium THEN 58 ELSE 55)

\* generate_opening_offer: the price (the message is decoration).
generate_opening_offer(m, g, ex, budget) ==
    Max2(1, Min2(opening_anchor(m, g, ex, budget), budget))

\* The dynamic ceiling ceil_now of respond_to_seller_offer.
late_cap(m, budget) == Min2(budget, IntMulPct(m, 96))

ceil_now_round_off_by_one(m, g, ex, budget, round_i) ==
    LET fair == calculate_fair_price(m, g, ex)
        cap  == late_cap(m, budget)
        k    == Min2(8, round_i)
    IN  TruncDiv(8 * fair + (cap - fair) * k, 8)

ceil_now(m, g, ex, budget, round_i) ==
    LET fair == calculate_fair_price(m, g, ex)
        cap  == late_cap(m, budget)
        k    == Min2(8, round_i - 1)
    IN  TruncDiv(8 * fair + (cap - fair) * k, 8)

within_budget_strict(sp, budget) == sp < budget

\* seller_price <= budget, the first condition of both accepts.
within_budget(sp, budget) == sp <= budget

\* The fast accept of an excellent offer.
fast_accept(m, budget, sp) == within_budget(sp, budget) /\ sp <= IntMulPct(m, 87)

\* The accept within the ceiling.
ceiling_accept(m, g, ex, budget, round_i, sp) ==
    /\ within_budget(sp, budget)
    /\ sp <= ceil_now(m, g, ex, budget, round_i)
    /\ sp <= IntMulPct(m, 93)

clamp_missing(counter, budget) == counter

\* counter = min(counter, budget)
clamp_to_budget(counter, budget) == Min2(counter, budget)

\* The safeguards without the 8% step.
monotonic_counter_without_step(planned, last, budget) ==
    clamp_to_budget(Max2(planned, last + 1000), budget)

monotonic_counter_planned_only(planned, last, budget) ==
    clamp_to_budget(planned, budget)

\* The monotonic increase safeguards.
monotonic_counter(planned, last, budget) ==
    clamp_to_budget(Max2(Max2(planned, IntMulPct(last, 108)), last + 1000), budget)

\* The late push without its budget clamp.
late_push_unclamped(counter, m, budget, round_i) ==
    LET c9 == IF round_i >= 9 THEN Max2(counter, IntMulPct(m, 90)) ELSE counter
    IN  IF round_i >= 10 THEN Max2(c9, IntMulPct(m, 92)) ELSE c9

late_push_missing(counter, m, budget, round_i) == counter

\* The late push to avoid timeout.
late_push(counter, m, budget, round_i) ==
    LET c9 == IF round_i >= 9
              THEN Min2(Max2(counter, IntMulPct(m, 90)), budget)
              ELSE counter
    IN  IF round_i >= 10
        THEN Min2(Max2(c9, IntMulPct(m, 92)), budget)
        ELSE c9

closing_jump_missing(counter, trigger, last, budget, ceiling, round_i) == counter

\* The jump to close in round >= 8.
closing_jump(counter, trigger, last, budget, ceiling, round_i) ==
    IF trigger # None /\ round_i >= 8
    THEN LET jump == Min2(Min2(trigger, budget), ceiling)
         IN  IF jump > last THEN Max2(counter, jump) ELSE counter
    ELSE counter

\* The nudge above the trigger.
final_nudge(counter, est_min, m, budget) ==
    IF est_min # None
    THEN LET needed == CeilMul110(est_min)
         IN  IF /\ needed <= budget
                /\ 0 < needed - counter
                /\ needed - counter <= Max2(2000, (m * 5) \div 1000)
             THEN needed
             ELSE counter
    ELSE counter

\* accept_trigger: what the seller is expected to accept, None without an estimate.
accept_trigger(yo, so) ==
    LET est_min == estimate_min_price(yo, so).est
    IN  IF est_min # None THEN CeilMul110(est_min) ELSE None

\* The target to move toward.
target_price(m, g, ex, budget, round_i, yo, so) ==
    LET trigger == accept_trigger(yo, so)
        ceiling == ceil_now(m, g, ex, budget, round_i)
    IN  IF trigger # None
        THEN Min2(Min2(trigger, ceiling), budget)
        ELSE Min2(Min2(IntMulPct(m, 90), ceiling), budget)

\* planned = self._concession_target(context, target)
planned_offer(m, g, ex, budget, round_i, yo, so) ==
    concession_target(round_i, yo, m, target_price(m, g, ex, budget, round_i, yo, so))

\* last = context.your_offers[-1] if context.your_offers else 0
last_offer(yo) == IF Len(yo) > 0 THEN Last(yo) ELSE 0

\* The counter-offer of respond_to_seller_offer when it does not accept.
counter_offer(m, g, ex, budget, round_i, yo, so) ==
    LET est_min == estimate_min_price(yo, so).est
        ceiling == ceil_now(m, g, ex, budget, round_i)
        trigger == accept_trigger(yo, so)
        planned == planned_offer(m, g, ex, budget, round_i, yo, so)
        last    == last_offer(yo)
        c1      == monotonic_counter(planned, last, budget)
        c2      == late_push(c1, m, budget, round_i)
        c3      == closing_jump(c2, trigger, last, budget, ceiling, round_i)
    IN  final_nudge(c3, est_min, m, budget)

\* A counter-offer that moves with the catchphrase drawn by the call before.
respond_nudged_by_draw(m, g, ex, budget, round_i, yo, so, sp) ==
    IF fast_accept(m, budget, sp) \/ ceiling_accept(m, g, ex, budget, round_i, sp)
    THEN [status |-> ACCEPTED, price |-> sp]
    ELSE [status |-> ONGOING,
          price  |-> counter_offer(m, g, ex, budget, round_i, yo, so) + phrase]

respond_with_timeout(m, g, ex, budget, round_i, yo, so, sp) ==
    IF fast_accept(m, budget, sp)
    THEN [status |-> ACCEPTED, price |-> sp]
    ELSE IF ceiling_accept(m, g, ex, budget, round_i, sp)
    THEN [status |-> ACCEPTED, price |-> sp]
    ELSE [status |-> IF round_i >= MaxRounds THEN TIMEOUT ELSE ONGOING,
          price  |-> counter_offer(m, g, ex, budget, round_i, yo, so)]

\* respond_to_seller_offer: the status and the price (the message is decoration).
respond_to_seller_offer(m, g, ex, budget, round_i, yo, so, sp) ==
    IF fast_accept(m, budget, sp)
    THEN [status |-> ACCEPTED, price |-> sp]
    ELSE IF ceiling_accept(m, g, ex, budget, round_i, sp)
    THEN [status |-> ACCEPTED, price |-> sp]
    ELSE [status |-> ONGOING,
          price  |-> counter_offer(m, g, ex, budget, round_i, yo, so)]

\* _say: random.random() < 0.5 picks one of the three catchphrases (1..3),
\* otherwise the body alone (0).
SayDraws == 0 .. 3

-----------------------------------------------------------------------------
(* MockSellerAgent *)

get_opening_price(m) == (m * 3) \div 2

seller_accepts_at_floor(offer, min_price) == offer >= min_price

seller_accepts(offer, min_price) == offer >= CeilMul110(min_price)

\* A counter that follows the buyer's offer without the floor.
seller_counter_unclamped(offer, rnd, min_price) ==
    IF rnd >= 8 THEN IntMulPct(offer, 105) ELSE IntMul115(offer)

seller_counter(offer, rnd, min_price) ==
    IF rnd >= 8
    THEN Max2(min_price, IntMulPct(offer, 105))
    ELSE Max2(min_price, IntMul115(offer))

\* respond_to_buyer: the price and whether the seller accepts.
respond_to_buyer(offer, rnd, min_price) ==
    IF seller_accepts(offer, min_price)
    THEN [price |-> offer, accepts |-> TRUE]
    ELSE [price |-> seller_counter(offer, rnd, min_price), accepts |-> FALSE]

-----------------------------------------------------------------------------
(* run_negotiation_test *)

PctOf(m, p) == (m * p) \div 100

\* A budget of twice the market price and a floor of 115% of it are added: the
\* seller's accept level is then affordable but above every ceiling of the buyer.
SessionBudgets(m) == {1, PctOf(m, 200)} \cup {PctOf(m, 50 + 5 * i) : i \in 0 .. NBudget}

SessionFloors(m) == {PctOf(m, 115)} \cup {PctOf(m, 50 + 5 * i) : i \in 0 .. NMin}

\* The arguments of run_negotiation_test and the fresh context.
Init ==
    /\ market \in Markets
    /\ \E p \in Products : grade = p[1] /\ export = p[2]
    /\ your_budget \in SessionBudgets(market)
    /\ seller_min \in SessionFloors(market)
    /\ current_round = 0
    /\ seller_offers = <<>>
    /\ your_offers = <<>>
    /\ messages = <<>>
    /\ round_num = 0
    /\ seller_price = None
    /\ buyer_offer = None
    /\ status = ONGOING
    /\ deal_made = FALSE
    /\ final_price = None
    /\ phrase = 0
    /\ pc = "open"
    /\ calls = [buyer |-> 0, seller |-> 0]
    /\ estimate = [est |-> None, lower_bound |-> None, upper_bound |-> None]
    /\ target_in = None
    /\ planned_out = None
    /\ max_price = None
    /\ current_offer = None
    /\ returned = None
    /\ current_price = None
    /\ max_rounds = None

\* Seller opens.
SellerOpens ==
    /\ pc = "open"
    /\ seller_price' = get_opening_price(market)
    /\ seller_offers' = Append(seller_offers, get_opening_price(market))
    /\ messages' = Append(messages, "seller")
    /\ pc' = "buyer"
    /\ UNCHANGED <<max_price, current_offer, returned, current_price, max_rounds>>
    /\ UNCHANGED <<market, grade, export, your_budget, seller_min, current_round,
                   your_offers, round_num, buyer_offer, status, deal_made,
                   final_price, phrase, calls, estimate, target_in,
                   planned_out>>

\* What the buyer policy returns in the round that starts.
buyer_reply(rnd) ==
    IF rnd = 0
    THEN [status |-> ONGOING,
          price  |-> generate_opening_offer(market, grade, export, your_budget)]
    ELSE respond_to_seller_offer(market, grade, export, your_budget, rnd + 1,
                                 your_offers, seller_offers, seller_price)

\* Only the latest offer is kept on record.
record_offer_overwrites(offers, price) ==
    IF offers = <<>> THEN <<price>> ELSE [offers EXCEPT ![Len(offers)] = price]

\* context.your_offers.append(buyer_offer)
record_offer(offers, price) == Append(offers, price)

after_buyer_no_break(st) == "seller"

\* Where the runner goes after the buyer's reply.
after_buyer(st) == IF st = ACCEPTED THEN "done" ELSE "seller"

\* Where the runner goes after the seller's reply.
after_seller(accepts, rnd) ==
    IF accepts \/ rnd + 1 >= MaxRounds THEN "done" ELSE "buyer"

\* Buyer responds.
BuyerResponds ==
    /\ pc = "buyer"
    /\ \E reply \in {buyer_reply(round_num)} :
           /\ current_round' = round_num + 1
           /\ status' = reply.status
           /\ buyer_offer' = reply.price
           /\ your_offers' = record_offer(your_offers, reply.price)
           /\ messages' = Append(messages, "buyer")
           /\ deal_made' = (reply.status = ACCEPTED)
           /\ final_price' = IF reply.status = ACCEPTED THEN seller_price ELSE final_price
           /\ pc' = after_buyer(reply.status)
    /\ phrase' \in SayDraws
    /\ calls' = [calls EXCEPT !.buyer = @ + 1]
    /\ UNCHANGED <<max_price, current_offer, returned, current_price, max_rounds>>
    /\ UNCHANGED <<market, grade, export, your_budget, seller_min, seller_offers,
                   round_num, seller_price, estimate, target_in,
                   planned_out>>

\* Seller responds.
SellerResponds ==
    /\ pc = "seller"
    /\ \E reply \in {respond_to_buyer(buyer_offer, round_num, seller_min)} :
           /\ seller_price' = reply.price
           /\ deal_made' = reply.accepts
           /\ final_price' = IF reply.accepts THEN buyer_offer ELSE final_price
           /\ seller_offers' = IF reply.accepts THEN seller_offers
                               ELSE Append(seller_offers, reply.price)
           /\ messages' = Append(messages, "seller")
           /\ round_num' = IF reply.accepts THEN round_num ELSE round_num + 1
           /\ pc' = after_seller(reply.accepts, round_num)
    /\ calls' = [calls EXCEPT !.seller = @ + 1]
    /\ UNCHANGED <<max_price, current_offer, returned, current_price, max_rounds>>
    /\ UNCHANGED <<market, grade, export, your_budget, seller_min, current_round,
                   your_offers, buyer_offer, status, phrase, estimate, target_in,
                   planned_out>>

Next == SellerOpens \/ BuyerResponds \/ SellerResponds

Spec == Init /\ [][Next]_vars

-----------------------------------------------------------------------------
(* Properties of a session of run_negotiation_test (Spec) *)

\* C1: every price the buyer policy emits in a session (the opening offer, every
\* counter-offer, every accepted price) is at most your_budget, and so is the
\* final price of a closed deal.
BudgetSafety ==
    /\ \A i \in 1 .. Len(your_offers) : your_offers[i] <= your_budget
    /\ buyer_offer # None => buyer_offer <= your_budget
    /\ deal_made => final_price <= your_budget

\* A deal closed after the buyer's counter-offer had been clamped to the budget.
BudgetSafetyWitness ==
    /\ deal_made
    /\ Len(your_offers) >= 3
    /\ final_price = your_budget
    /\ your_offers[1] < your_budget

\* C2: the buyer's offers of a session never regress: each entry of your_offers
\* after the first is at least the entry before it.
MonotonicOffers ==
    \A i \in 1 .. Len(your_offers) - 1 : your_offers[i + 1] >= your_offers[i]

\* Three counters in a row, each above the one before.
MonotonicOffersWitness ==
    /\ Len(your_offers) >= 4
    /\ status = ONGOING
    /\ \A i \in 1 .. Len(your_offers) - 1 : your_offers[i + 1] > your_offers[i]

\* C3, as stated: every counter returned with ONGOING is at least the previous
\* offer plus 1000, at least planned and at least floor(1.08 * previous offer).
StrictProgressAsStated ==
    [][(BuyerResponds /\ round_num >= 1 /\ status' = ONGOING) =>
          \E planned \in {planned_offer(market, grade, export, your_budget,
                                        round_num + 1, your_offers, seller_offers)} :
              /\ buyer_offer' >= Last(your_offers) + 1000
              /\ buyer_offer' >= (Last(your_offers) * 108) \div 100
              /\ buyer_offer' >= planned]_vars

\* C3, amended: every counter returned with ONGOING is at least
\* min(budget, max(planned, floor(1.08 * last), last + 1000)): it is above the
\* previous offer by the fixed step unless the budget clamps it.
StrictProgressUpToBudget ==
    [][(round_num >= 1 /\ pc = "buyer" /\ status' = ONGOING /\ pc' = "seller") =>
          \E planned \in {planned_offer(market, grade, export, your_budget,
                                        round_num + 1, your_offers, seller_offers)} :
              buyer_offer' >=
                  Min2(your_budget,
                       Max2(Max2(planned, (Last(your_offers) * 108) \div 100),
                            Last(your_offers) + 1000))]_vars

\* A counter that the budget held below the previous offer plus 1000.
StrictProgressWitness ==
    /\ status = ONGOING
    /\ Len(your_offers) >= 2
    /\ Last(your_offers) = your_budget
    /\ Last(your_offers) < your_offers[Len(your_offers) - 1] + 1000

\* The seller never accepts and no seller price is acceptable to the buyer.
FloorOutOfReach ==
    /\ 100 * seller_min > 92 * your_budget
    /\ seller_min > your_budget \/ 100 * seller_min > 93 * market

NoDealAfterAllRounds ==
    /\ ~deal_made
    /\ status = ONGOING
    /\ final_price = None
    /\ pc = "done" => current_round = MaxRounds /\ Len(your_offers) = MaxRounds

\* C6, as stated: a session whose seller floor exceeds 0.92 * budget ends
\* without a deal after exactly 10 rounds, and nobody ever accepts.
RoundExhaustionAsStated ==
    100 * seller_min > 92 * your_budget => NoDealAfterAllRounds

\* C6, amended: a session whose seller floor exceeds 0.92 * budget and also
\* exceeds the budget or 0.93 * market price ends without a deal after exactly
\* 10 rounds, and nobody ever accepts; with a floor above 0.92 * budget alone
\* the seller never accepts (a deal is the buyer's acceptance).
RoundExhaustion ==
    /\ FloorOutOfReach => NoDealAfterAllRounds
    /\ (100 * seller_min > 92 * your_budget /\ deal_made) =>
           status = ACCEPTED /\ final_price = seller_price

\* All ten rounds played with a floor the budget covers, and no deal.
RoundExhaustionWitness ==
    /\ pc = "done"
    /\ FloorOutOfReach
    /\ seller_min <= your_budget
    /\ current_round = MaxRounds
    /\ calls.seller = MaxRounds

Terminal == deal_made \/ pc = "done"

\* C7: a session starts ONGOING; once the buyer policy returns ACCEPTED or the
\* seller accepts, the runner is done and no step follows (no call, no append,
\* no second acceptance); and every session is over within 10 rounds.
SessionShape ==
    /\ pc = "open" => status = ONGOING /\ ~deal_made
    /\ deal_made => pc = "done"
    /\ status = ACCEPTED => deal_made
    /\ current_round <= MaxRounds
    /\ calls.buyer <= MaxRounds /\ calls.seller <= MaxRounds
    /\ pc \in {"open", "buyer", "seller", "done"}
    /\ (pc = "done" /\ ~deal_made) => current_round = MaxRounds

TerminalIsFinal ==
    [][/\ Terminal => UNCHANGED vars
       /\ SessionShape /\ SessionShape'
       /\ calls.buyer' + calls.seller' = calls.buyer + calls.seller + 1 \/ pc = "open"]_vars

\* A session that ended before the last round on the buyer's acceptance.
TerminalIsFinalWitness ==
    /\ pc = "done"
    /\ status = ACCEPTED
    /\ deal_made
    /\ current_round < MaxRounds

\* s is a prefix of t, and t holds at most one entry more.
GrowsByAppend(s, t) ==
    /\ Len(t) \in {Len(s), Len(s) + 1}
    /\ \A i \in 1 .. Len(s) : t[i] = s[i]

\* C18: no step of a session changes the product or the budget; current_round
\* starts at 0 and moves only up, by 1, to at most 10; seller_offers,
\* your_offers and messages change only by an append, so each earlier value is
\* a prefix of every later one.
AppendOnlyHistory ==
    [][/\ UNCHANGED <<market, grade, export, your_budget>>
       /\ pc = "open" => current_round = 0
       /\ current_round' \in {current_round, current_round + 1}
       /\ current_round' <= MaxRounds
       /\ GrowsByAppend(seller_offers, seller_offers')
       /\ GrowsByAppend(your_offers, your_offers')
       /\ GrowsByAppend(messages, messages')]_vars

\* A session played to the last round: ten buyer offers, the seller's opening
\* and ten counters, twenty-one messages.
AppendOnlyHistoryWitness ==
    /\ pc = "done"
    /\ current_round = MaxRounds
    /\ Len(your_offers) = MaxRounds
    /\ Len(seller_offers) = MaxRounds + 1
    /\ Len(messages) = 2 * MaxRounds + 1

\* C17, as stated: every deal closed in a session, by either side's acceptance,
\* has a final price strictly below the market price.
BelowMarketAsStated ==
    deal_made => final_price < market

\* C17, amended: a deal closed by the buyer's acceptance is at most
\* 0.93 * market price, so strictly below it; a deal closed by the seller's
\* acceptance is at the buyer's counter-offer, which only the budget bounds: it
\* is strictly below the market price when the budget is.
BelowMarketDeals ==
    deal_made =>
        /\ status = ACCEPTED => 100 * final_price <= 93 * market
        /\ final_price <= your_budget
        /\ your_budget < market => final_price < market

\* The seller accepted a counter-offer above the market price.
BelowMarketWitness ==
    /\ deal_made
    /\ status = ONGOING
    /\ final_price = buyer_offer
    /\ final_price > market

\* C22: in every state of a session, what the estimator infers from the
\* history is sound: a defined lower_bound is the seller's min_price exactly, a
\* defined upper_bound is at least min_price, and so lower_bound <= upper_bound;
\* with counters of the 1.15 rule and of the late 1.05 rule alike.
FloorInferenceSound ==
    \E e \in {estimate_min_price(your_offers, seller_offers)} :
        /\ e.lower_bound # None => e.lower_bound = seller_min
        /\ e.upper_bound # None => e.upper_bound >= seller_min
        /\ (e.lower_bound # None /\ e.upper_bound # None) =>
               e.lower_bound <= e.upper_bound

\* The last round about to be played: the early counters revealed the floor,
\* and the counter of the late round (the 1.05 rule) lies above it.
FloorInferenceWitness ==
    /\ pc = "buyer"
    /\ round_num = MaxRounds - 1
    /\ Len(seller_offers) = MaxRounds
    /\ estimate_min_price(your_offers, seller_offers).lower_bound = seller_min
    /\ estimate_min_price(your_offers, seller_offers).upper_bound = seller_min
    /\ Last(seller_offers) > seller_min

-----------------------------------------------------------------------------
(* A single call of the buyer policy on any context *)

PolicyMarkets == {100000, 100009}

PolicyBudgets(m) == {PctOf(m, 85), PctOf(m, 90), PctOf(m, 100), PctOf(m, 120)}

\* Seller prices around the accept thresholds (87%, the ceiling, 93% of market).
PolicyPrices(m) ==
    {PctOf(m, p) : p \in {85, 86, 87, 88, 89, 91, 93, 95}} \cup {PctOf(m, 87) + 1, PctOf(m, 93) + 1}

PolicyOffers(m) == {PctOf(m, 58), PctOf(m, 80)}

PolicyCounters(m) == {PctOf(m, 82), PctOf(m, 92)}

\* The histories of n buyer offers, each answered by a seller counter.
RECURSIVE PairedHistories(_, _)
PairedHistories(m, n) ==
    IF n = 0
    THEN {[yo |-> <<>>, so |-> <<get_opening_price(m)>>]}
    ELSE LET shorter == PairedHistories(m, n - 1)
         IN  shorter \cup
             {[yo |-> Append(h.yo, o), so |-> Append(h.so, c)] :
                 h \in {x \in shorter : Len(x.yo) = n - 1},
                 o \in PolicyOffers(m), c \in PolicyCounters(m)}

InitPolicy ==
    /\ market \in PolicyMarkets
    /\ \E p \in Products : grade = p[1] /\ export = p[2]
    /\ your_budget \in PolicyBudgets(market)
    /\ seller_min = None
    /\ current_round \in 1 .. MaxRounds
    /\ \E h \in PairedHistories(market, MaxHist) :
           your_offers = h.yo /\ seller_offers = h.so
    /\ messages = <<>>
    /\ round_num = current_round - 1
    /\ seller_price \in PolicyPrices(market)
    /\ buyer_offer = None
    /\ status = ONGOING
    /\ deal_made = FALSE
    /\ final_price = None
    /\ phrase = 0
    /\ pc = "call"
    /\ calls = [buyer |-> 0, seller |-> 0]
    /\ estimate = [est |-> None, lower_bound |-> None, upper_bound |-> None]
    /\ target_in = None
    /\ planned_out = None
    /\ max_price = None
    /\ current_offer = None
    /\ returned = None
    /\ current_price = None
    /\ max_rounds = None

\* generate_opening_offer(context), called as the runner does on an empty
\* history, and then once more on the same context.
CallOpening ==
    /\ pc \in {"call", "opened"}
    /\ your_offers = <<>>
    /\ buyer_offer' = generate_opening_offer(market, grade, export, your_budget)
    /\ status' = ONGOING
    /\ phrase' \in SayDraws
    /\ pc' = IF pc = "call" THEN "opened" ELSE "opened_twice"
    /\ calls' = [calls EXCEPT !.buyer = @ + 1]
    /\ UNCHANGED <<max_price, current_offer, returned, current_price, max_rounds>>
    /\ UNCHANGED <<market, grade, export, your_budget, seller_min, current_round,
                   seller_offers, your_offers, messages, round_num, seller_price,
                   deal_made, final_price, estimate, target_in,
                   planned_out>>

\* respond_to_seller_offer(context, seller_price, seller_message), and then
\* once more on the same context and seller_price.
CallRespond ==
    /\ pc \in {"call", "responded"}
    /\ \E reply \in {respond_to_seller_offer(market, grade, export, your_budget,
                           current_round, your_offers, seller_offers, seller_price)} :
           /\ status' = reply.status
           /\ buyer_offer' = reply.price
    /\ phrase' \in SayDraws
    /\ pc' = IF pc = "call" THEN "responded" ELSE "responded_twice"
    /\ calls' = [calls EXCEPT !.buyer = @ + 1]
    /\ UNCHANGED <<max_price, current_offer, returned, current_price, max_rounds>>
    /\ UNCHANGED <<market, grade, export, your_budget, seller_min, current_round,
                   seller_offers, your_offers, messages, round_num, seller_price,
                   deal_made, final_price, estimate, target_in,
                   planned_out>>

NextPolicy == CallOpening \/ CallRespond

SpecPolicy == InitPolicy /\ [][NextPolicy]_vars

-----------------------------------------------------------------------------
(* A single call of the buyer policy in the closing rounds *)

\* Last offers below and above what the seller is expected to accept.
ClosingOffers(m) == {PctOf(m, 58), PctOf(m, 80), PctOf(m, 95)}

ClosingCounters(m) == {PctOf(m, 70), PctOf(m, 92)}

ClosingPrices(m) == {PctOf(m, 85), PctOf(m, 94), PctOf(m, 150)}

\* From this round on the policy jumps to close.
ClosingRound == 8

\* The histories of at most n buyer offers over the closing grid.
RECURSIVE ClosingHistories(_, _)
ClosingHistories(m, n) ==
    IF n = 0
    THEN {[yo |-> <<>>, so |-> <<get_opening_price(m)>>]}
    ELSE LET shorter == ClosingHistories(m, n - 1)
         IN  shorter \cup
             {[yo |-> Append(h.yo, o), so |-> Append(h.so, c)] :
                 h \in {x \in shorter : Len(x.yo) = n - 1},
                 o \in ClosingOffers(m), c \in ClosingCounters(m)}

InitClosing ==
    /\ market \in PolicyMarkets
    /\ \E p \in Products : grade = p[1] /\ export = p[2]
    /\ your_budget \in PolicyBudgets(market)
    /\ seller_min = None
    /\ current_round \in ClosingRound .. MaxRounds
    /\ \E h \in ClosingHistories(market, MaxHist) :
           your_offers = h.yo /\ seller_offers = h.so
    /\ messages = <<>>
    /\ round_num = current_round - 1
    /\ seller_price \in ClosingPrices(market)
    /\ buyer_offer = None
    /\ status = ONGOING
    /\ deal_made = FALSE
    /\ final_price = None
    /\ phrase = 0
    /\ pc = "call"
    /\ calls = [buyer |-> 0, seller |-> 0]
    /\ estimate = [est |-> None, lower_bound |-> None, upper_bound |-> None]
    /\ target_in = None
    /\ planned_out = None
    /\ max_price = None
    /\ current_offer = None
    /\ returned = None
    /\ current_price = None
    /\ max_rounds = None

SpecClosing == InitClosing /\ [][NextPolicy]_vars

-----------------------------------------------------------------------------
(* A single call of the buyer policy on a context outside its contract *)

\* Grades beyond the closed set 'A', 'B', 'Export' of Product.quality_grade.
UncheckedGrades == Grades \cup {"C"}

UncheckedMarkets == {0, 100000}

UncheckedBudgets == {0, 90000, 100000}

UncheckedPrices == {0, 86000, 92000, 150000}

\* budget < 1, market price < 1 or a grade outside the closed set.
PreconditionViolated == your_budget < 1 \/ market < 1 \/ grade \notin Grades

InitUnchecked ==
    /\ market \in UncheckedMarkets
    /\ grade \in UncheckedGrades
    /\ export = FALSE
    /\ your_budget \in UncheckedBudgets
    /\ PreconditionViolated
    /\ seller_min = None
    /\ current_round \in 1 .. MaxRounds
    /\ \E h \in PairedHistories(100000, MaxHist) :
           your_offers = h.yo /\ seller_offers = h.so
    /\ messages = <<>>
    /\ round_num = current_round - 1
    /\ seller_price \in UncheckedPrices
    /\ buyer_offer = None
    /\ status = ONGOING
    /\ deal_made = FALSE
    /\ final_price = None
    /\ phrase = 0
    /\ pc = "call"
    /\ calls = [buyer |-> 0, seller |-> 0]
    /\ estimate = [est |-> None, lower_bound |-> None, upper_bound |-> None]
    /\ target_in = None
    /\ planned_out = None
    /\ max_price = None
    /\ current_offer = None
    /\ returned = None
    /\ current_price = None
    /\ max_rounds = None

\* The same two calls as in SpecPolicy: the code has no check before them.
SpecUnchecked == InitUnchecked /\ [][NextPolicy]_vars

-----------------------------------------------------------------------------
(* A single call of the estimator on any history *)

EstOffers == {50000, 60000, 100000}

EstCounters == {57000, 57500, 58000, 69000, 72000, 90000, 115000}

RECURSIVE SeqsUpTo(_, _)
\* The sequences over S of length at most n.
SeqsUpTo(S, n) ==
    IF n = 0 THEN {<<>>}
    ELSE LET shorter == SeqsUpTo(S, n - 1)
         IN  shorter \cup {Append(q, x) : q \in {y \in shorter : Len(y) = n - 1}, x \in S}

InitEstimate ==
    /\ market = 100000
    /\ grade = "B"
    /\ export = FALSE
    /\ your_budget = market
    /\ seller_min = None
    /\ current_round = 1
    /\ your_offers \in SeqsUpTo(EstOffers, MaxPairs)
    /\ seller_offers \in SeqsUpTo(EstCounters, MaxPairs + 1)
    /\ messages = <<>>
    /\ round_num = 0
    /\ seller_price = None
    /\ buyer_offer = None
    /\ status = ONGOING
    /\ deal_made = FALSE
    /\ final_price = None
    /\ phrase = 0
    /\ pc = "call"
    /\ calls = [buyer |-> 0, seller |-> 0]
    /\ estimate = [est |-> None, lower_bound |-> None, upper_bound |-> None]
    /\ target_in = None
    /\ planned_out = None
    /\ max_price = None
    /\ current_offer = None
    /\ returned = None
    /\ current_price = None
    /\ max_rounds = None

\* _estimate_min_price(context), called once and then once more on the context
\* the first call left.
CallEstimate ==
    /\ pc \in {"call", "estimated"}
    /\ estimate' = estimate_min_price(your_offers, seller_offers)
    /\ pc' = IF pc = "call" THEN "estimated" ELSE "estimated_twice"
    /\ UNCHANGED <<max_price, current_offer, returned, current_price, max_rounds>>
    /\ UNCHANGED <<market, grade, export, your_budget, seller_min, current_round,
                   seller_offers, your_offers, messages, round_num, seller_price,
                   buyer_offer, status, deal_made, final_price, phrase, calls, target_in,
                   planned_out>>

NextEstimate == CallEstimate

SpecEstimate == InitEstimate /\ [][NextEstimate]_vars

-----------------------------------------------------------------------------
(* A single call of the concession scheduler on any anchor, target and round *)

\* First offers on record (the anchor); without one the anchor is int(0.65 * market).
CurveAnchors == {58000, 61000, 90000}

CurveTargets == {40000, 58000, 58040, 61050, 65000, 88000, 93000}

\* The histories the anchor is read from: none, or an anchor and later offers.
CurveHistories ==
    {<<>>} \cup {<<a>> : a \in CurveAnchors} \cup {<<a, a + 1000>> : a \in CurveAnchors}

InitCurve ==
    /\ market \in PolicyMarkets
    /\ grade = "B"
    /\ export = FALSE
    /\ your_budget = market
    /\ seller_min = None
    /\ current_round \in 0 .. MaxRounds
    /\ your_offers \in CurveHistories
    /\ seller_offers = <<get_opening_price(market)>>
    /\ messages = <<>>
    /\ round_num = 0
    /\ seller_price = None
    /\ buyer_offer = None
    /\ status = ONGOING
    /\ deal_made = FALSE
    /\ final_price = None
    /\ phrase = 0
    /\ pc = "call"
    /\ calls = [buyer |-> 0, seller |-> 0]
    /\ estimate = [est |-> None, lower_bound |-> None, upper_bound |-> None]
    /\ target_in \in CurveTargets
    /\ planned_out = None
    /\ max_price = None
    /\ current_offer = None
    /\ returned = None
    /\ current_price = None
    /\ max_rounds = None

\* _concession_target(context, target).
CallConcessionTarget ==
    /\ pc = "call"
    /\ planned_out' = concession_target(current_round, your_offers, market, target_in)
    /\ pc' = "planned"
    /\ UNCHANGED <<max_price, current_offer, returned, current_price, max_rounds>>
    /\ UNCHANGED <<market, grade, export, your_budget, seller_min, current_round,
                   seller_offers, your_offers, messages, round_num, seller_price,
                   buyer_offer, status, deal_made, final_price, phrase, calls,
                   estimate, target_in>>

NextCurve == CallConcessionTarget

SpecCurve == InitCurve /\ [][NextCurve]_vars

-----------------------------------------------------------------------------
(* Properties of a single call of respond_to_seller_offer (SpecPolicy) *)

\* C4: for every round and history, a seller price within the budget and at
\* most 0.87 * market price is ACCEPTED at exactly that price.
FastAccept ==
    (pc = "responded" /\ seller_price <= your_budget
                      /\ 100 * seller_price <= 87 * market) =>
        status = ACCEPTED /\ buyer_offer = seller_price

\* Market 100000, budget 120000, seller offer 86000: ACCEPTED at 86000.
FastAcceptWitness ==
    /\ pc = "responded"
    /\ market = 100000 /\ your_budget = 120000 /\ seller_price = 86000
    /\ status = ACCEPTED /\ buyer_offer = 86000

\* The ceiling of the round, between the fair price and the late cap: sp is at
\* most the ceiling when 8 * sp <= 8 * fair + (cap - fair) * min(8, round - 1).
UnderCeiling(sp) ==
    LET mult == IF grade = "Export" \/ export THEN 95 ELSE IF grade = "A" THEN 92 ELSE 88
        fair == (market * mult) \div 100
        cap  == IF your_budget <= (market * 96) \div 100
                THEN your_budget ELSE (market * 96) \div 100
        k    == IF current_round - 1 >= 8 THEN 8 ELSE current_round - 1
    IN  8 * sp <= 8 * fair + (cap - fair) * k

\* The same with the unrounded values: the fair price market * multiplier and
\* the cap min(budget, 0.96 * market) as rationals, everything times 800.
UnderUnroundedCeiling(sp) ==
    LET mult == IF grade = "Export" \/ export THEN 95 ELSE IF grade = "A" THEN 92 ELSE 88
        cap  == IF 100 * your_budget <= 96 * market
                THEN 100 * your_budget ELSE 96 * market
        k    == IF current_round - 1 >= 8 THEN 8 ELSE current_round - 1
    IN  800 * sp <= 8 * mult * market + (cap - mult * market) * k

\* C5, as stated: when the fast accept does not apply, the call returns
\* ACCEPTED at seller_price exactly when seller_price is within the budget, at
\* most the ceiling interpolated from market * multiplier toward
\* min(budget, 0.96 * market), and at most 0.93 * market; otherwise ONGOING.
CeilingAcceptAsStated ==
    (pc = "responded" /\ ~(seller_price <= your_budget
                            /\ 100 * seller_price <= 87 * market)) =>
        IF /\ seller_price <= your_budget
           /\ UnderUnroundedCeiling(seller_price)
           /\ 100 * seller_price <= 93 * market
        THEN status = ACCEPTED /\ buyer_offer = seller_price
        ELSE status = ONGOING

\* C5, amended: the same with the ceiling the code computes in whole prices:
\* from fair_price = floor(market * multiplier) toward
\* min(budget, floor(0.96 * market)), truncated to an integer.
CeilingAcceptIff ==
    (pc = "responded" /\ ~(seller_price <= your_budget
                            /\ 100 * seller_price <= 87 * market)) =>
        IF /\ seller_price <= your_budget
           /\ UnderCeiling(seller_price)
           /\ 100 * seller_price <= 93 * market
        THEN status = ACCEPTED /\ buyer_offer = seller_price
        ELSE status = ONGOING

\* A price above 0.87 * market accepted in a middle round, under a ceiling
\* that the first round would not have allowed.
CeilingAcceptWitness ==
    /\ pc = "responded"
    /\ status = ACCEPTED
    /\ 100 * seller_price > 87 * market
    /\ current_round \in 2 .. 8
    /\ seller_price > (market * 88) \div 100

\* C8: the buyer policy returns ONGOING or ACCEPTED, never TIMEOUT or REJECTED.
PolicyNeverTimesOut ==
    pc = "responded" => status \in {ONGOING, ACCEPTED}

\* The last round answered with a counter-offer.
PolicyNeverTimesOutWitness ==
    pc = "responded" /\ current_round = MaxRounds /\ status = ONGOING

CeilingBound ==
    (pc = "responded" /\ current_round >= 1 /\ your_budget >= 1) =>
        \E ceiling \in {ceil_now(market, grade, export, your_budget, current_round)} :
            /\ ceiling <= your_budget
            /\ ceiling <= (market * 96) \div 100

\* The counter after the monotonic step and the clamp, before the late push.
CounterBeforePush ==
    monotonic_counter(planned_offer(market, grade, export, your_budget,
                                    current_round, your_offers, seller_offers),
                      last_offer(your_offers), your_budget)

\* C20: a counter returned with ONGOING at round >= 9 is at least
\* min(floor(0.90 * market), budget), and at round >= 10 at least
\* min(floor(0.92 * market), budget); the closing jump and the final nudge leave
\* it at or above what the late push set.
LateRoundFloorPush ==
    (pc = "responded" /\ status = ONGOING /\ current_round >= 9) =>
        /\ buyer_offer >= Min2((market * 90) \div 100, your_budget)
        /\ current_round >= 10 => buyer_offer >= Min2((market * 92) \div 100, your_budget)
        /\ \E pushed \in {late_push(CounterBeforePush, market, your_budget, current_round)} :
               buyer_offer >= pushed

\* Round 10, where the push lifted a lower counter to 0.92 * market.
LateRoundFloorPushWitness ==
    /\ pc = "responded"
    /\ status = ONGOING
    /\ current_round = MaxRounds
    /\ buyer_offer = (market * 92) \div 100
    /\ buyer_offer < your_budget
    /\ CounterBeforePush < buyer_offer

-----------------------------------------------------------------------------
(* Properties of a call of respond_to_seller_offer in the closing rounds
   (SpecClosing) *)

\* ceil(1.10 * x) in exact arithmetic.
CeilTenthMore(x) == (11 * x + 9) \div 10

\* min(accept_trigger, budget, ceiling) with accept_trigger = ceil(1.10 * est).
ClosingJumpTo(est) ==
    Min2(Min2(CeilTenthMore(est), your_budget),
         ceil_now(market, grade, export, your_budget, current_round))

\* C21: with a floor estimate, at round >= 8, a counter returned with ONGOING
\* is at least min(accept_trigger, budget, ceiling): the guard 'jump > last
\* offer' leaves no case out that 'jump > counter' would have raised.
ClosingJump ==
    (pc = "responded" /\ status = ONGOING /\ current_round >= ClosingRound) =>
        \E est \in {estimate_min_price(your_offers, seller_offers).est} :
            est # None => buyer_offer >= ClosingJumpTo(est)

\* Round 8, the counter lifted to the jump from a lower scheduled offer.
ClosingJumpWitness ==
    /\ pc = "responded"
    /\ status = ONGOING
    /\ current_round = ClosingRound
    /\ your_offers # <<>>
    /\ estimate_min_price(your_offers, seller_offers).est # None
    /\ buyer_offer = ClosingJumpTo(estimate_min_price(your_offers, seller_offers).est)
    /\ CounterBeforePush < buyer_offer

\* The guard of the jump is false (the jump is not above the last offer), and
\* the counter is at or above the jump all the same.
ClosingJumpGuardOff ==
    /\ pc = "responded"
    /\ status = ONGOING
    /\ your_offers # <<>>
    /\ estimate_min_price(your_offers, seller_offers).est # None
    /\ ClosingJumpTo(estimate_min_price(your_offers, seller_offers).est)
           <= Last(your_offers)
    /\ Last(your_offers) <= your_budget

-----------------------------------------------------------------------------
(* Properties of a single call of _estimate_min_price (SpecEstimate) *)

\* The pairs of the history: buyer offer i is answered by seller offer i + 1.
Pairs ==
    1 .. (IF Len(your_offers) <= Len(seller_offers) - 1
          THEN Len(your_offers) ELSE Len(seller_offers) - 1)

\* The pairs whose counter is above floor(1.15 * buyer offer).
Revealing == {i \in Pairs : seller_offers[i + 1] > (your_offers[i] * 115) \div 100}

MaxOf(S) == CHOOSE x \in S : \A y \in S : y <= x

MinOf(S) == CHOOSE x \in S : \A y \in S : x <= y

\* C9: when some pair has its counter above floor(1.15 * buyer offer), the
\* estimate is the counter of the last such pair.
LowerBoundCapture ==
    (pc = "estimated" /\ Revealing # {}) =>
        estimate.est = seller_offers[MaxOf(Revealing) + 1]

\* C10: when there is a pair and no counter is above floor(1.15 * buyer offer)
\* (a counter equal to it does not count), the estimate is floor(0.96 * U) for
\* the smallest paired counter U, and the lower bound is undefined.
UpperBoundFallback ==
    (pc = "estimated" /\ Pairs # {} /\ Revealing = {}) =>
        /\ estimate.lower_bound = None
        /\ estimate.est = (MinOf({seller_offers[i + 1] : i \in Pairs}) * 96) \div 100

\* There is no completed buyer-offer -> seller-counter pair.
NoPair == your_offers = <<>> \/ Len(seller_offers) <= 1

\* C11: the estimator returns None with both bounds undefined exactly when the
\* history holds no completed pair (no buyer offer, or no seller offer after the
\* opening); with at least one pair the estimate is an integer.
NoEvidenceIffNoPair ==
    pc = "estimated" =>
        /\ (/\ estimate.est = None
            /\ estimate.lower_bound = None
            /\ estimate.upper_bound = None) <=> NoPair
        /\ ~NoPair => estimate.est \in Nat

\* Buyer offers on record, but no seller offer after the opening: no estimate.
NoEvidenceWitness ==
    /\ pc = "estimated"
    /\ Len(your_offers) = MaxPairs
    /\ Len(seller_offers) = 1
    /\ estimate.est = None

-----------------------------------------------------------------------------
(* Properties of a single call of generate_opening_offer (SpecPolicy) *)

\* The anchor ratio in hundredths: 62 if budget / market >= 1.05, 58 if it is
\* >= 0.95, else 55, and 3 more for an export grade.
OpeningRatio ==
    (IF 100 * your_budget >= 105 * market THEN 62
     ELSE IF 100 * your_budget >= 95 * market THEN 58
     ELSE 55)
    + (IF grade = "Export" \/ export THEN 3 ELSE 0)

\* C13: on an empty history generate_opening_offer returns floor(market * ratio)
\* clamped to [1, budget].
OpeningOfferRule ==
    pc = "opened" =>
        LET opening == (market * OpeningRatio) \div 100
            capped  == IF opening <= your_budget THEN opening ELSE your_budget
        IN  buyer_offer = (IF capped >= 1 THEN capped ELSE 1)

-----------------------------------------------------------------------------
(* Properties of a single call of _concession_target (SpecCurve) *)

\* anchor = context.your_offers[0] if context.your_offers else int(0.65 * market)
CurveAnchor == IF Len(your_offers) > 0 THEN your_offers[1] ELSE (market * 65) \div 100

Abs(x) == IF x >= 0 THEN x ELSE -x

\* C14, as stated: at round 1 the scheduled offer is the anchor, and at round 10
\* the target, each within 1 of integer rounding.
CurveBoundaryAsStated ==
    pc = "planned" =>
        /\ current_round = 1 => Abs(planned_out - CurveAnchor) <= 1
        /\ current_round = MaxRounds => Abs(planned_out - target_in) <= 1

\* C14, amended: the logistic ease is 0.018 at round 1 and 0.982 at round 10, so
\* at round 1 the scheduled offer is within 1.8% of the gap |target - anchor|
\* (plus 1 of rounding) of the anchor, at round 10 within the same distance of
\* the target, and in every round it lies between anchor and target.
CurveBoundary ==
    pc = "planned" =>
        /\ current_round <= 1 =>
               1000 * Abs(planned_out - CurveAnchor)
                   <= 18 * Abs(target_in - CurveAnchor) + 1000
        /\ current_round = MaxRounds =>
               1000 * Abs(planned_out - target_in)
                   <= 18 * Abs(target_in - CurveAnchor) + 1000
        /\ \/ CurveAnchor <= planned_out /\ planned_out <= target_in
           \/ target_in <= planned_out /\ planned_out <= CurveAnchor

\* Round 1 already hundreds above the anchor, for a target far from it.
CurveBoundaryWitness ==
    /\ pc = "planned"
    /\ current_round = 1
    /\ your_offers = <<58000>> /\ target_in = 93000
    /\ planned_out > CurveAnchor + 500
    /\ planned_out < CurveAnchor + 700

-----------------------------------------------------------------------------
(* Properties of a call outside the contract (SpecUnchecked) *)

\* C15: a call of generate_opening_offer or respond_to_seller_offer with
\* budget < 1, market price < 1 or a grade outside {A, B, Export} ends in an
\* error and returns no price.
FailFast ==
    (PreconditionViolated /\ pc # "call") => (pc = "error" /\ buyer_offer = None)

-----------------------------------------------------------------------------
(* Properties of the end of a session of run_negotiation_test (Spec) *)

OutOfReach ==
    /\ pc = "done"
    /\ ~deal_made
    /\ CeilMul110(seller_min) <= your_budget
    /\ 100 * seller_min > 110 * market

\* C24, as stated: every counter respond_to_seller_offer returns with ONGOING in
\* a session is at most the seller price it answers.
BidWithinAskAsStated ==
    (pc = "seller" /\ current_round >= 2) => buyer_offer <= seller_price

\* C24, amended: a counter returned with ONGOING is at most the budget, hence
\* below every seller price that is above the budget.
BidWithinAsk ==
    (pc = "seller" /\ current_round >= 2 /\ seller_price > your_budget) =>
        (buyer_offer <= your_budget /\ buyer_offer < seller_price)

\* Round 10: the push to 92% of market stopped at the budget, below the ask.
BidWithinAskWitness ==
    /\ pc = "seller"
    /\ current_round = MaxRounds
    /\ seller_price > your_budget
    /\ buyer_offer = your_budget
    /\ your_budget < IntMulPct(market, 90)
    /\ your_budget > 1

\* Round 10: the 8% step answers a 1.05 counter within the budget and passes it.
BidAboveAsk ==
    /\ pc = "seller"
    /\ current_round = MaxRounds
    /\ seller_price <= your_budget
    /\ seller_price = IntMulPct(your_offers[MaxRounds - 1], 105)
    /\ buyer_offer = IntMulPct(your_offers[MaxRounds - 1], 108)
    /\ buyer_offer > seller_price

-----------------------------------------------------------------------------
(* SellerAgent of SellerAgent.py: a sequence of respond calls on one seller *)

\* The most respond calls made on one seller.
MaxCalls == 4

\* (min_price, max_price) of the sellers; (60, 100) are the defaults.
SellerRanges == {<<60, 100>>, <<60, 60>>, <<20, 27>>, <<59, 100>>, <<10, 110>>}

\* The max_rounds arguments.
SellerMaxRounds == {3, 4}

\* The buyer offers: below and at 0.9 * min_price, just below and at min_price,
\* and max_price.
SellerAgentOffers(mn, mx) ==
    {(9 * mn) \div 10 - 1, (9 * mn + 9) \div 10, mn - 1, mn, mx}

RECURSIVE GCD(_, _)
GCD(a, b) == IF b = 0 THEN a ELSE GCD(b, a % b)

\* current_offer is a double.  It is kept as the fraction num/den it stands for,
\* in lowest terms; exact tells that every value so far had a power of two as
\* denominator, so that no division or subtraction was rounded and the double
\* is that fraction.  Otherwise the double is within a few ulps of it.
Fraction(n, d, ex) ==
    [num |-> n \div GCD(n, d), den |-> d \div GCD(n, d), exact |-> ex]

FracLeq(f, g) == f.num * g.den <= g.num * f.den

\* A concession of current_offer / (max_rounds - round_number + 1), with no floor.
concede_to_zero(cur, mn, rnd, mr) ==
    Fraction(cur.num * (mr - rnd), cur.den * (mr - rnd + 1), cur.exact)

\* concession = (current_offer - min_price) / (max_rounds - round_number + 1)
\* current_offer = max(min_price, current_offer - concession)
concede(cur, mn, rnd, mr) ==
    LET d  == mr - rnd + 1
        n2 == cur.num * d - (cur.num - mn * cur.den)
        d2 == cur.den * d
        f  == Fraction(n2, d2, cur.exact)
    IN  IF n2 < mn * d2
        THEN Fraction(mn, 1, cur.exact)
        ELSE [f EXCEPT !.exact = cur.exact /\ f.den = Pow2Floor(f.den)]

\* int(self.current_offer), min_price <= current_offer, min_price >= 0.  A rounded
\* double standing for a whole number k can lie just below k, and int() then
\* gives k - 1; both outcomes are kept.
int_of(f, mn) ==
    LET k == f.num \div f.den
    IN  IF f.num % f.den = 0 /\ ~f.exact /\ k - 1 >= mn THEN {k - 1, k} ELSE {k}

\* buyer_offer >= self.min_price * 0.9: the double product of a whole min_price is
\* less than half an ulp from 9 * min_price / 10, so the test is the exact one.
accept_best_offer(offer, mn) == 10 * offer >= 9 * mn

\* respond: what the call can return, and the current_offer it leaves.
respond(cur, mn, offer, rnd, mr) ==
    IF offer >= mn
    THEN {[kind |-> "accept", value |-> offer, offer_left |-> cur]}
    ELSE IF rnd = mr
    THEN IF accept_best_offer(offer, mn)
         THEN {[kind |-> "accept", value |-> offer, offer_left |-> cur]}
         ELSE {[kind |-> "reject", value |-> None, offer_left |-> cur]}
    ELSE {[kind |-> "counter", value |-> v, offer_left |-> concede(cur, mn, rnd, mr)] :
              v \in int_of(concede(cur, mn, rnd, mr), mn)}

\* SellerAgent(min_price, max_price)
InitSeller ==
    /\ \E r \in SellerRanges : seller_min = r[1] /\ max_price = r[2]
    /\ current_offer = [num |-> max_price, den |-> 1, exact |-> TRUE]
    /\ returned = [kind |-> "none", value |-> None]
    /\ max_rounds = None
    /\ round_num = 0
    /\ buyer_offer = None
    /\ calls = [buyer |-> 0, seller |-> 0]
    /\ pc = "call"
    /\ market = None
    /\ grade = "B"
    /\ export = FALSE
    /\ your_budget = None
    /\ current_round = 0
    /\ seller_offers = <<>>
    /\ your_offers = <<>>
    /\ messages = <<>>
    /\ seller_price = None
    /\ status = ONGOING
    /\ deal_made = FALSE
    /\ final_price = None
    /\ phrase = 0
    /\ estimate = [est |-> None, lower_bound |-> None, upper_bound |-> None]
    /\ target_in = None
    /\ planned_out = None
    /\ current_price = None

\* seller.respond(buyer_offer, round_number, max_rounds)
Respond ==
    /\ pc = "call"
    /\ calls.seller < MaxCalls
    /\ \E offer \in SellerAgentOffers(seller_min, max_price), mr \in SellerMaxRounds :
         \E rnd \in 1 .. mr :
           \E r \in respond(current_offer, seller_min, offer, rnd, mr) :
               /\ buyer_offer' = offer
               /\ round_num' = rnd
               /\ max_rounds' = mr
               /\ current_offer' = r.offer_left
               /\ returned' = [kind |-> r.kind, value |-> r.value]
    /\ calls' = [calls EXCEPT !.seller = @ + 1]
    /\ UNCHANGED <<market, grade, export, your_budget, seller_min, max_price,
                   current_round, seller_offers, your_offers, messages,
                   seller_price, status, deal_made, final_price, phrase, pc,
                   estimate, target_in, planned_out, current_price>>

NextSeller == Respond

SpecSeller == InitSeller /\ [][NextSeller]_vars

-----------------------------------------------------------------------------
(* Properties of a sequence of respond calls of SellerAgent.py (SpecSeller) *)

\* C25: over any sequence of respond calls with 1 <= round_number <= max_rounds
\* and min_price <= max_price, current_offer never rises and stays within
\* [min_price, max_price], a counter is at least min_price, an accept returns
\* the buyer's offer, and a call with round_number = max_rounds does not counter.
GradualSeller ==
    [][/\ FracLeq(current_offer', current_offer)
       /\ seller_min * current_offer'.den <= current_offer'.num
       /\ current_offer'.num <= max_price * current_offer'.den
       /\ returned'.kind = "counter" => returned'.value >= seller_min
       /\ returned'.kind = "accept" => returned'.value = buyer_offer'
       /\ round_num' = max_rounds' => returned'.kind # "counter"]_vars

\* The second counter of the seller (10, 110), after divisions by 3 and by 4:
\* current_offer stands for 60, the double is 59.99999999999999 and the counter
\* is 59, between the floor and the first counter.
GradualSellerWitness ==
    /\ calls.seller = 2
    /\ returned.kind = "counter"
    /\ ~current_offer.exact
    /\ current_offer.num = 60 * current_offer.den
    /\ returned.value = 59
    /\ seller_min = 10
    /\ round_num < max_rounds

-----------------------------------------------------------------------------
(* The negotiation engine of main.py: negotiate(product, buyer_budget) *)

\* int(x * c) for a double c near n/d.  c = <<n, d, t, k>>: the double is
\* n/d + t / (d * 2^(52 + k)).  Off a whole product the truncation is the exact
\* floor; when x*n/d is a whole number e and the double is below n/d (t < 0), the
\* product rounds to the double before e, and int() gives e - 1, when it lies
\* more than half of e's spacing below e.
IntMulDouble(x, c) ==
    LET e == (x * c[1]) \div c[2]
    IN  IF /\ (x * c[1]) % c[2] = 0
           /\ c[3] < 0
           /\ e >= 2
           /\ 2 * x * (-c[3]) > c[2] * Pow2Floor(e - 1) * (2 ^ c[4])
        THEN e - 1
        ELSE e

\* quality_rounds.get(product.quality_grade, 5)
quality_rounds(g) ==
    CASE g = "Export" -> 3
      [] g = "A" -> 6
      [] g = "B" -> 8
      [] OTHER -> 5

\* 1 + markup, as the double the sum yields.
grade_markup(g) ==
    CASE g = "Export" -> <<7, 5, -2, 0>>
      [] g = "A" -> <<13, 10, 2, 0>>
      [] g = "B" -> <<23, 20, -8, 0>>
      [] OTHER -> <<6, 5, -1, 0>>

\* int(self.min_price * (1 + markup))
initial_offer(m, g) == IntMulDouble(m, grade_markup(g))

\* The doubles 0.75, 0.70, 0.65 and the default 0.70.
grade_discount(g) ==
    CASE g = "Export" -> <<3, 4, 0, 1>>
      [] g = "A" -> <<7, 10, -4, 1>>
      [] g = "B" -> <<13, 20, 4, 1>>
      [] OTHER -> <<7, 10, -4, 1>>

\* min(int(product.base_market_price * discount), self.budget)
opening_offer(m, g, budget) == Min2(IntMulDouble(m, grade_discount(g)), budget)

\* min(int((seller_price + last_offer) / 2), self.budget)
buyer_counter_offer(sp, last, budget) == Min2((sp + last) \div 2, budget)

\* concession_factor = 0.1 + (round_num / max_rounds) * 0.25, as the double the
\* expression yields for each round of each grade's max_rounds.
concession_factor(r, mr) ==
    CASE mr = 3 -> <<<<11, 60, 32, 3>>, <<4, 15, -1, 2>>, <<7, 20, -8, 2>>>>[r]
      [] mr = 5 -> <<<<3, 20, 16, 3>>, <<1, 5, 2, 3>>, <<1, 4, 0, 2>>,
                     <<3, 10, 8, 2>>, <<7, 20, -8, 2>>>>[r]
      [] mr = 6 -> <<<<17, 120, -16, 3>>, <<11, 60, 32, 3>>, <<9, 40, 8, 3>>,
                     <<4, 15, -1, 2>>, <<37, 120, 32, 2>>, <<7, 20, -8, 2>>>>[r]
      [] mr = 8 -> <<<<21, 160, 32, 3>>, <<13, 80, 16, 3>>, <<31, 160, 32, 3>>,
                     <<9, 40, 8, 3>>, <<41, 160, -64, 2>>, <<23, 80, -32, 2>>,
                     <<51, 160, -64, 2>>, <<7, 20, -8, 2>>>>[r]

\* SellerAgent.respond of main.py: the new current_price (buyer_offer <= cur).
seller_respond(cur, offer, r, mr, mn) ==
    Max2(cur - IntMulDouble(cur - offer, concession_factor(r, mr)), mn)

\* savings = buyer_budget - final_price
savings == your_budget - final_price

\* The products: the three of main.py, a grade without an entry, small markets.
EngineGrades == Grades \cup {"C"}

EngineMarkets == {45, 600, 750, 900}

\* negotiate(product, buyer_budget) after the context, the seller and the buyer
\* are made.
InitEngine ==
    /\ market \in EngineMarkets
    /\ grade \in EngineGrades
    /\ export = FALSE
    /\ your_budget \in SessionBudgets(market)
    /\ max_rounds = quality_rounds(grade)
    /\ seller_min = market
    /\ current_price = initial_offer(market, grade)
    /\ current_round = 0
    /\ seller_offers = <<>>
    /\ your_offers = <<>>
    /\ messages = <<>>
    /\ round_num = 0
    /\ seller_price = None
    /\ buyer_offer = None
    /\ status = ONGOING
    /\ deal_made = FALSE
    /\ final_price = None
    /\ phrase = 0
    /\ pc = "initial"
    /\ calls = [buyer |-> 0, seller |-> 0]
    /\ estimate = [est |-> None, lower_bound |-> None, upper_bound |-> None]
    /\ target_in = None
    /\ planned_out = None
    /\ max_price = None
    /\ current_offer = None
    /\ returned = None

\* Initial offers.
InitialOffers ==
    /\ pc = "initial"
    /\ seller_price' = current_price
    /\ seller_offers' = Append(seller_offers, current_price)
    /\ buyer_offer' = opening_offer(market, grade, your_budget)
    /\ your_offers' = Append(your_offers, opening_offer(market, grade, your_budget))
    /\ messages' = messages \o <<"Seller", "Buyer">>
    /\ pc' = "rounds"
    /\ UNCHANGED <<market, grade, export, your_budget, seller_min, max_rounds,
                   current_price, current_round, round_num, status, deal_made,
                   final_price, phrase, calls, estimate, target_in, planned_out,
                   max_price, current_offer, returned>>

\* One negotiation round.
NegotiationRound ==
    /\ pc = "rounds"
    /\ round_num < max_rounds
    /\ \E sp \in {seller_respond(current_price, buyer_offer, round_num + 1,
                                  max_rounds, seller_min)} :
           /\ round_num' = round_num + 1
           /\ current_round' = round_num + 1
           /\ current_price' = sp
           /\ seller_price' = sp
           /\ seller_offers' = Append(seller_offers, sp)
           /\ buyer_offer' = buyer_counter_offer(sp, buyer_offer, your_budget)
           /\ your_offers' =
                  Append(your_offers, buyer_counter_offer(sp, buyer_offer, your_budget))
    /\ messages' = messages \o <<"Seller", "Buyer">>
    /\ UNCHANGED <<market, grade, export, your_budget, seller_min, max_rounds,
                   status, deal_made, final_price, phrase, pc, calls, estimate,
                   target_in, planned_out, max_price, current_offer, returned>>

\* final_price = context.seller_offers[-1]; the buyer accepts the final offer.
BuyerAcceptsFinal ==
    /\ pc = "rounds"
    /\ round_num = max_rounds
    /\ final_price' = Last(seller_offers)
    /\ deal_made' = TRUE
    /\ pc' = "done"
    /\ UNCHANGED <<market, grade, export, your_budget, seller_min, max_rounds,
                   current_price, current_round, seller_offers, your_offers,
                   messages, round_num, seller_price, buyer_offer, status, phrase,
                   calls, estimate, target_in, planned_out, max_price,
                   current_offer, returned>>

NextEngine == InitialOffers \/ NegotiationRound \/ BuyerAcceptsFinal

SpecEngine == InitEngine /\ [][NextEngine]_vars

-----------------------------------------------------------------------------
(* Properties of main.py's negotiate (SpecEngine) *)

\* C26: the final deal price the buyer accepts never exceeds buyer_budget, so the
\* reported savings are never negative.
DealWithinBudget ==
    pc = "done" => (final_price <= your_budget /\ savings >= 0)

\* The seller's price never goes below the market price, whatever the budget.
FinalAboveBudget ==
    /\ pc = "done"
    /\ your_budget = market
    /\ final_price > your_budget
    /\ Last(your_offers) <= your_budget

====
